---- MODULE Spec2Model ----
(***************************************************************************)
(* A model of the yahtzee program (src/src/main.rs): the dice roller, the  *)
(* scoring evaluator, the score table, the game engine (attempt_command)   *)
(* and the control loop of main.                                           *)
(*                                                                         *)
(* Dice and hold flags are sequences of length five; the source indexes    *)
(* them 0..4 (DiceNum), the model 1..5, so DiceNum n is position n + 1.    *)
(***************************************************************************)
EXTENDS Integers, Sequences, FiniteSets, TLC

VARIABLES
    game_state,  \* Game.game_state
    dice,        \* Game.current_roll.dice
    holds,       \* Game.current_roll.holds
    table,       \* Game.score_table.table: a map from the used score types to u8
    msg,         \* Game.msg
    command,     \* main's local `command`: the command of the last iteration or call
    ret,         \* what the last call returned
    total,       \* the total draw_update last rendered (table_total)
    input,       \* retrieve_command's `input`: the tokens of the line it read
    halt         \* "run", "quit" (main left its loop) or the panic that ended the process

vars == <<game_state, dice, holds, table, msg, command, ret, total, input, halt>>

(***************************************************************************)
(* Bounds of the model.                                                    *)
(***************************************************************************)
\* Whole-game specifications: the generator draws only the face GameFace, the
\* player holds only the first GameHoldDice dice, and scores a score type
\* among the first n + GameAhead, where n score types are on the table.
GameFace == 1
GameHoldDice == 2
GameAhead == 2
\* Turn specification: the generator draws faces in 1..MaxDraw.
MaxDraw == 2
\* Turn specification: the player scores only the first MaxTurnCat score types.
MaxTurnCat == 1

(***************************************************************************)
(* Data.                                                                   *)
(***************************************************************************)
NumDice == 5
MaxFace == 6
NumScoreTypes == 12

Faces == 1..MaxFace
DiceIdx == 1..NumDice
DiceNum == 0..(NumDice - 1)
Rolls == [DiceIdx -> Faces]

ScoreTypeSeq ==
    <<"Aces", "Twos", "Threes", "Fours", "Fives", "Sixes", "FourOfKind",
      "FullHouse", "LittleStraight", "BigStraight", "Yacht", "Chance">>
ScoreType == {ScoreTypeSeq[i] : i \in 1..NumScoreTypes}

GameStates == {"FirstRoll", "SecondRoll", "ThirdRoll", "GameOver"}

NoHolds == [i \in DiceIdx |-> FALSE]
EmptyTable == <<>>

U8 == 256

(***************************************************************************)
(* The scoring evaluator.                                                  *)
(***************************************************************************)
\* An upper that counts the dice equal to n (x += 1 for x += n).
upper_counts(d, n) ==
    LET x[k \in 0..NumDice] ==
            IF k = 0 THEN 0
            ELSE IF d[k] = n THEN (x[k - 1] + 1) % U8 ELSE x[k - 1]
    IN  x[NumDice]

\* upper: x += n for every die equal to n (u8; at most 5 * 6, so no overflow).
upper(d, n) ==
    LET x[k \in 0..NumDice] ==
            IF k = 0 THEN 0
            ELSE IF d[k] = n THEN (x[k - 1] + n) % U8 ELSE x[k - 1]
    IN  x[NumDice]

\* The slice pattern [v, v, v, v, _].
FrontFour(d, v) == d[1] = v /\ d[2] = v /\ d[3] = v /\ d[4] = v
\* The slice pattern [_, v, v, v, v].
BackFour(d, v) == d[2] = v /\ d[3] = v /\ d[4] = v /\ d[5] = v

\* A FourOfKind arm with the patterns [v, v, v, v, _] alone.
four_of_kind_front_only(d) ==
    IF \E v \in 1..5 : FrontFour(d, v)
    THEN 4 * (CHOOSE v \in 1..5 : FrontFour(d, v))
    ELSE 0

\* The FourOfKind arm: the match tries its patterns in order.
four_of_kind(d) ==
    IF FrontFour(d, 1) THEN 4
    ELSE IF BackFour(d, 2) THEN 8
    ELSE IF FrontFour(d, 2) THEN 8
    ELSE IF BackFour(d, 3) THEN 12
    ELSE IF FrontFour(d, 3) THEN 12
    ELSE IF BackFour(d, 4) THEN 16
    ELSE IF FrontFour(d, 4) THEN 16
    ELSE IF BackFour(d, 5) THEN 20
    ELSE IF FrontFour(d, 5) THEN 20
    ELSE IF BackFour(d, 6) THEN 24
    ELSE 0

\* The number of dice showing face i (the inner loop of the FullHouse arm).
Amount(d, i) == Cardinality({k \in DiceIdx : d[k] = i})

\* The FullHouse loop with `amount >= n` for `amount == n`.
LastFaceSeenAtLeast(d, n) ==
    LET f[i \in 0..MaxFace] ==
            IF i = 0 THEN 0
            ELSE IF Amount(d, i) >= n THEN i ELSE f[i - 1]
    IN  f[MaxFace]

\* The value the FullHouse loop leaves in `first` (n = 3) or `second` (n = 2):
\* the last face i of 1..=6 seen n times, 0 when there is none.
LastFaceSeen(d, n) ==
    LET f[i \in 0..MaxFace] ==
            IF i = 0 THEN 0
            ELSE IF Amount(d, i) = n THEN i ELSE f[i - 1]
    IN  f[MaxFace]

full_house(d) ==
    LET first == LastFaceSeen(d, 3)
        second == LastFaceSeen(d, 2)
    IN  IF first = 0 \/ second = 0 THEN 0
        ELSE IF first # second THEN 25
        ELSE 0

\* A LittleStraight arm that accepts the faces 1..5 in any order.
little_straight_any_order(d) ==
    IF \A v \in 1..5 : \E k \in DiceIdx : d[k] = v THEN 30 ELSE 0

little_straight(d) == IF d = <<1, 2, 3, 4, 5>> THEN 30 ELSE 0

big_straight(d) == IF d = <<2, 3, 4, 5, 6>> THEN 30 ELSE 0

yacht(d) == IF \A k \in DiceIdx : d[k] = d[1] THEN 50 ELSE 0

\* iter().sum() into a u8 (at most 30).
chance(d) == (d[1] + d[2] + d[3] + d[4] + d[5]) % U8

evaluate_score(d, score_type) ==
    CASE score_type = "Aces" -> upper(d, 1)
      [] score_type = "Twos" -> upper(d, 2)
      [] score_type = "Threes" -> upper(d, 3)
      [] score_type = "Fours" -> upper(d, 4)
      [] score_type = "Fives" -> upper(d, 5)
      [] score_type = "Sixes" -> upper(d, 6)
      [] score_type = "FourOfKind" -> four_of_kind(d)
      [] score_type = "FullHouse" -> full_house(d)
      [] score_type = "LittleStraight" -> little_straight(d)
      [] score_type = "BigStraight" -> big_straight(d)
      [] score_type = "Yacht" -> yacht(d)
      [] score_type = "Chance" -> chance(d)

(***************************************************************************)
(* The score table.                                                        *)
(***************************************************************************)
check_table(t, score_type) == score_type \in DOMAIN t

\* HashMap::insert of a new key.
Insert(t, score_type, score) ==
    [c \in DOMAIN t \cup {score_type} |-> IF c = score_type THEN score ELSE t[c]]
\* A score_on_table without its check_table guard: it records over a used
\* score type.
score_on_table_overwrites(t, score_type, roll) ==
    [table |-> Insert(t, score_type, evaluate_score(roll, score_type)), ok |-> TRUE]

\* score_on_table: the table it leaves and the bool it returns.
score_on_table(t, score_type, roll) ==
    IF check_table(t, score_type)
    THEN [table |-> t, ok |-> FALSE]
    ELSE [table |-> Insert(t, score_type, evaluate_score(roll, score_type)),
          ok |-> TRUE]

reset_scores(t) == EmptyTable

\* The arithmetic sum of the scores of the first n score types that t holds.
RECURSIVE SumFirst(_, _)
SumFirst(t, n) ==
    IF n = 0 THEN 0
    ELSE (IF ScoreTypeSeq[n] \in DOMAIN t THEN t[ScoreTypeSeq[n]] ELSE 0)
         + SumFirst(t, n - 1)

SumScores(t) == SumFirst(t, NumScoreTypes)

\* table_total's loop: `sum` is a u8 (it is added a &u8), so `sum += score`
\* overflows once the scores pass 255. The scores are not negative, so some
\* partial sum overflows, in whatever order the map is walked, exactly when
\* the whole sum does.
\* table_total: a build with overflow checks panics on the overflow, a build
\* without them wraps; `sum as u16` then widens the u8.
table_total(t) ==
    LET sum == SumScores(t)
    IN  IF sum >= U8
        THEN {[panic |-> TRUE, val |-> 0], [panic |-> FALSE, val |-> sum % U8]}
        ELSE {[panic |-> FALSE, val |-> sum]}

(***************************************************************************)
(* Values of `command` and `ret`.                                          *)
(***************************************************************************)
\* A Command: its variant, and the variant's payload (a score type, a DiceNum
\* or a text); the fields a variant does not carry keep a default.
Cmd(kind, score_type, num, text) ==
    [kind |-> kind, score_type |-> score_type, num |-> num, text |-> text]

RollCmd == Cmd("Roll", "", 0, "")
SortCmd == Cmd("Sort", "", 0, "")
ScoreCmd(score_type) == Cmd("Score", score_type, 0, "")
HoldCmd(num) == Cmd("Hold", "", num, "")
NewCmd == Cmd("New", "", 0, "")
QuitCmd == Cmd("Quit", "", 0, "")
HelpCmd(text) == Cmd("Help", "", 0, text)
NotRecognisedCmd(text) == Cmd("NotRecognised", "", 0, text)
NoCmd == Cmd("none", "", 0, "")

\* What a call returned: the function called, a bool, a number or a text.
Ret(op, ok, val, text) == [op |-> op, ok |-> ok, val |-> val, text |-> text]
NoRet == Ret("none", FALSE, 0, "")

(***************************************************************************)
(* The dice roller. The generator is the set F of the faces it may draw.   *)
(***************************************************************************)
\* A gen_roll whose range starts at 0 (gen_range(0..=6)).
gen_roll_from_zero(F) == [DiceIdx -> F \cup {0}]

\* gen_roll: five draws.
gen_roll(F) == [DiceIdx -> F]

\* Roll::new.
Roll_new(F) == {[dice |-> d, holds |-> NoHolds] : d \in gen_roll(F)}

\* A sort that reverses the dice.
sort_reversed(d) == [p \in DiceIdx |-> d[NumDice + 1 - p]]

\* The number of dice of d below v, or equal to v at a position before k.
Before(d, k) == Cardinality({i \in DiceIdx : d[i] < d[k] \/ (d[i] = d[k] /\ i < k)})

\* Roll::sort (a stable ascending sort): die k moves to position Before(d, k) + 1.
sort(d) == [p \in DiceIdx |-> d[CHOOSE k \in DiceIdx : Before(d, k) + 1 = p]]

reset_holds(h) == NoHolds

\* A roll_with_holds that draws every die, held or not.
roll_with_holds_all(d, h, F) == gen_roll(F)

\* roll_with_holds: the dice it may leave; a die that is not held is drawn again.
roll_with_holds(d, h, F) ==
    {nd \in [DiceIdx -> F \cup {d[i] : i \in DiceIdx}] :
        \A i \in DiceIdx : IF h[i] THEN nd[i] = d[i] ELSE nd[i] \in F}

\* A hold that sets the flag and never clears it.
hold_sets(h, num) == [holds |-> [h EXCEPT ![num + 1] = TRUE], ret |-> TRUE]

\* Roll::hold: the flags it leaves and the bool it returns.
hold(h, num) ==
    IF h[num + 1]
    THEN [holds |-> [h EXCEPT ![num + 1] = FALSE], ret |-> FALSE]
    ELSE [holds |-> [h EXCEPT ![num + 1] = TRUE], ret |-> TRUE]

(***************************************************************************)
(* The game engine.                                                        *)
(***************************************************************************)
PanicThird == "panic: Cant advance from Third roll without score"
PanicGameOver == "panic: This should probably start a new game"
PanicTodo == "panic: not yet implemented"
PanicUnhandled == "panic: Don't know how this happened, may quit wasn't handled?"
PanicOverflow == "panic: attempt to add with overflow"
\* The panics of the engine's own assertions.
EnginePanics == {PanicThird, PanicGameOver, PanicTodo, PanicUnhandled}

MsgNoMoreRolls == "No more rolls available this round, try 'score'"
MsgNextRoll == "Onto next roll"
MsgSorted == "Dice Sorted!"
MsgGameOver == "Game Over! Type 'new' to start a new game!"
MsgSubmitted == "Score submitted!"
MsgUsed == "That score type was already used!"
MsgNew == "New Game Started"
MsgHeld(num) ==
    <<"Held dice number 1", "Held dice number 2", "Held dice number 3",
      "Held dice number 4", "Held dice number 5">>[num + 1]
MsgUnheld(num) ==
    <<"Unheld dice number 1", "Unheld dice number 2", "Unheld dice number 3",
      "Unheld dice number 4", "Unheld dice number 5">>[num + 1]
\* An advance_gamestate that stays in SecondRoll.
advance_gamestate_stuck(gs) ==
    CASE gs = "FirstRoll" -> [game_state |-> "SecondRoll", panic |-> ""]
      [] gs = "SecondRoll" -> [game_state |-> "SecondRoll", panic |-> ""]
      [] gs = "ThirdRoll" -> [game_state |-> gs, panic |-> PanicThird]
      [] gs = "GameOver" -> [game_state |-> gs, panic |-> PanicGameOver]

\* advance_gamestate: the state it leaves, and its panic ("" when it returns).
advance_gamestate(gs) ==
    CASE gs = "FirstRoll" -> [game_state |-> "SecondRoll", panic |-> ""]
      [] gs = "SecondRoll" -> [game_state |-> "ThirdRoll", panic |-> ""]
      [] gs = "ThirdRoll" -> [game_state |-> gs, panic |-> PanicThird]
      [] gs = "GameOver" -> [game_state |-> gs, panic |-> PanicGameOver]

\* len() == 1 for len() == 12.
TableIsFullTypo(t) == Cardinality(DOMAIN t) = 1

\* self.score_table.table.len() == 12
TableIsFull(t) == Cardinality(DOMAIN t) = NumScoreTypes

\* The Game the variables hold.
Game == [game_state |-> game_state, dice |-> dice, holds |-> holds, table |-> table]

\* What a call of attempt_command leaves: the Game, and either the message
\* of its Ok or the panic that ended it.
Outcome(gs, d, h, t, result, panic) ==
    [game_state |-> gs, dice |-> d, holds |-> h, table |-> t,
     result |-> result, panic |-> panic]

\* An attempt_roll without its ThirdRoll check.
attempt_roll_unguarded(g, F) ==
    LET a == advance_gamestate(g.game_state)
    IN  {Outcome(a.game_state, nd, g.holds, g.table,
                 IF a.panic = "" THEN MsgNextRoll ELSE "", a.panic) :
             nd \in roll_with_holds(g.dice, g.holds, F)}

\* An attempt_roll that rolls the dice before its ThirdRoll check.
attempt_roll_rolls_first(g, F) ==
    IF g.game_state = "ThirdRoll"
    THEN {Outcome(g.game_state, nd, g.holds, g.table, MsgNoMoreRolls, "") :
              nd \in roll_with_holds(g.dice, g.holds, F)}
    ELSE LET a == advance_gamestate(g.game_state)
         IN  {Outcome(a.game_state, nd, g.holds, g.table,
                      IF a.panic = "" THEN MsgNextRoll ELSE "", a.panic) :
                  nd \in roll_with_holds(g.dice, g.holds, F)}

\* Command::Roll
attempt_roll(g, F) ==
    IF g.game_state = "ThirdRoll"
    THEN {Outcome(g.game_state, g.dice, g.holds, g.table, MsgNoMoreRolls, "")}
    ELSE LET a == advance_gamestate(g.game_state)
         IN  {Outcome(a.game_state, nd, g.holds, g.table,
                      IF a.panic = "" THEN MsgNextRoll ELSE "", a.panic) :
                  nd \in roll_with_holds(g.dice, g.holds, F)}

\* An attempt_command Sort arm that counts as a roll: it calls
\* advance_gamestate.
attempt_sort_advances(g) ==
    LET a == advance_gamestate(g.game_state)
    IN  {Outcome(a.game_state, sort(g.dice), reset_holds(g.holds), g.table,
                 IF a.panic = "" THEN MsgSorted ELSE "", a.panic)}

\* An attempt_command Sort arm without its reset_holds.
attempt_sort_keeps_holds(g) ==
    {Outcome(g.game_state, sort(g.dice), g.holds, g.table, MsgSorted, "")}

\* Command::Sort
attempt_sort(g) ==
    {Outcome(g.game_state, sort(g.dice), reset_holds(g.holds), g.table, MsgSorted, "")}

\* An attempt_score that rolls with roll_with_holds, as New does, where the
\* source builds a Roll::new.
attempt_score_keeps_holds(g, score_type, F) ==
    LET s == score_on_table(g.table, score_type, g.dice)
    IN  IF s.ok
        THEN IF TableIsFull(s.table)
             THEN {Outcome("GameOver", g.dice, g.holds, s.table, MsgGameOver, "")}
             ELSE {Outcome("FirstRoll", nd, g.holds, s.table, MsgSubmitted, "") :
                       nd \in roll_with_holds(g.dice, g.holds, F)}
        ELSE {Outcome(g.game_state, g.dice, g.holds, g.table, MsgUsed, "")}

\* An attempt_score that goes back to FirstRoll also when the score type was
\* already used.
attempt_score_restarts(g, score_type, F) ==
    LET s == score_on_table(g.table, score_type, g.dice)
    IN  IF s.ok
        THEN IF TableIsFull(s.table)
             THEN {Outcome("GameOver", g.dice, g.holds, s.table, MsgGameOver, "")}
             ELSE {Outcome("FirstRoll", r.dice, r.holds, s.table, MsgSubmitted, "") :
                       r \in Roll_new(F)}
        ELSE {Outcome("FirstRoll", g.dice, g.holds, g.table, MsgUsed, "")}

\* Command::Score(score_type)
attempt_score(g, score_type, F) ==
    LET s == score_on_table(g.table, score_type, g.dice)
    IN  IF s.ok
        THEN IF TableIsFull(s.table)
             THEN {Outcome("GameOver", g.dice, g.holds, s.table, MsgGameOver, "")}
             ELSE {Outcome("FirstRoll", r.dice, r.holds, s.table, MsgSubmitted, "") :
                       r \in Roll_new(F)}
        ELSE {Outcome(g.game_state, g.dice, g.holds, g.table, MsgUsed, "")}

\* Command::Hold(num)
attempt_hold(g, num) ==
    LET h == hold(g.holds, num)
    IN  {Outcome(g.game_state, g.dice, h.holds, g.table,
                 IF h.ret THEN MsgHeld(num) ELSE MsgUnheld(num), "")}

\* Command::New
attempt_new(g, F) ==
    {Outcome("FirstRoll", nd, g.holds, reset_scores(g.table), MsgNew, "") :
         nd \in roll_with_holds(g.dice, g.holds, F)}

\* attempt_command: the outcomes of a call with `cmd` on the Game g.
attempt_command(g, cmd, F) ==
    CASE cmd.kind = "Roll" -> attempt_roll(g, F)
      [] cmd.kind = "Sort" -> attempt_sort(g)
      [] cmd.kind = "Score" -> attempt_score(g, cmd.score_type, F)
      [] cmd.kind = "Hold" -> attempt_hold(g, cmd.num)
      [] cmd.kind = "New" -> attempt_new(g, F)
      [] cmd.kind = "NotRecognised" ->
            {Outcome(g.game_state, g.dice, g.holds, g.table, "", PanicTodo)}
      [] OTHER ->
            {Outcome(g.game_state, g.dice, g.holds, g.table, "", PanicUnhandled)}

\* Game::new.
InitGame(F) ==
    /\ game_state = "FirstRoll"
    /\ \E r \in Roll_new(F) : dice = r.dice /\ holds = r.holds
    /\ table = EmptyTable
    /\ msg = ""
    /\ command = NoCmd
    /\ ret = NoRet
    /\ total = 0
    /\ input = <<>>
    /\ halt = "run"

\* A call of attempt_command on the game, by a caller that passes any command.
Call(cmd, F) ==
    /\ command' = cmd
    /\ \E o \in attempt_command(Game, cmd, F) :
        /\ game_state' = o.game_state
        /\ dice' = o.dice
        /\ holds' = o.holds
        /\ table' = o.table
        /\ halt' = IF o.panic = "" THEN halt ELSE o.panic
        /\ ret' = IF o.panic = "" THEN Ret("attempt_command", TRUE, 0, o.result) ELSE NoRet
    /\ UNCHANGED <<msg, total, input>>

(***************************************************************************)
(* The control loop of main. One step is one line of input: the rest of    *)
(* the iteration that read it and, back at the top of the loop, the        *)
(* draw_update that precedes the next read.                                *)
(***************************************************************************)
\* A loop without the GameOver check: the command read is the one applied.
loop_command_unchanged(gs, read) == read

\* if let GameStates::GameOver = game.game_state { command = Command::New; }
loop_command(gs, read) == IF gs = "GameOver" THEN NewCmd ELSE read

\* The process runs: main is in its loop, and nothing has panicked.
Running == halt = "run"

\* draw_update renders table_total.
draw_update(t) ==
    \E w \in table_total(t) :
        IF w.panic
        THEN halt' = PanicOverflow /\ total' = total
        ELSE halt' = halt /\ total' = w.val

\* A loop without the NotRecognised and Help arms: every command that is not
\* Quit goes to attempt_command.
main_loop_unfiltered(read, F) ==
    /\ IF read.kind = "Quit"
       THEN /\ halt' = "quit"
            /\ command' = read
            /\ UNCHANGED <<game_state, dice, holds, table, msg, ret, total>>
       ELSE LET cmd == loop_command(game_state, read)
            IN  /\ command' = cmd
                /\ \E o \in attempt_command(Game, cmd, F) :
                        /\ game_state' = o.game_state
                        /\ dice' = o.dice
                        /\ holds' = o.holds
                        /\ table' = o.table
                        /\ IF o.panic # ""
                           THEN /\ halt' = o.panic
                                /\ ret' = NoRet
                                /\ UNCHANGED <<msg, total>>
                           ELSE /\ msg' = o.result
                                /\ ret' = Ret("attempt_command", TRUE, 0, o.result)
                                /\ draw_update(o.table)
    /\ UNCHANGED input

main_loop(read, F) ==
    /\ IF read.kind = "Quit"
       THEN /\ halt' = "quit"
            /\ command' = read
            /\ UNCHANGED <<game_state, dice, holds, table, msg, ret, total>>
       ELSE LET cmd == loop_command(game_state, read)
            IN  /\ command' = cmd
                /\ IF cmd.kind \in {"NotRecognised", "Help"}
                   THEN /\ msg' = cmd.text
                        /\ ret' = NoRet
                        /\ UNCHANGED <<game_state, dice, holds, table>>
                        /\ draw_update(table)
                   ELSE \E o \in attempt_command(Game, cmd, F) :
                        /\ game_state' = o.game_state
                        /\ dice' = o.dice
                        /\ holds' = o.holds
                        /\ table' = o.table
                        /\ IF o.panic # ""
                           THEN /\ halt' = o.panic
                                /\ ret' = NoRet
                                /\ UNCHANGED <<msg, total>>
                           ELSE /\ msg' = o.result
                                /\ ret' = Ret("attempt_command", TRUE, 0, o.result)
                                /\ draw_update(o.table)
    /\ UNCHANGED input

\* The texts of the Help and NotRecognised commands the model reads.
HelpTexts ==
    {"commands: roll, sort, hold <dice>, score <type>, new, quit, help <command>"}
NotRecognisedTexts == {"Invalid command, try 'help' for list of commands"}

(***************************************************************************)
(* Spec: the control loop over whole games. Every command is read, in      *)
(* every state; the generator draws only the face GameFace, the player    *)
(* holds only the first GameHoldDice dice and scores the score types in    *)
(* the order of ScoreTypeSeq, up to GameAhead - 1 score types ahead.       *)
(***************************************************************************)
GameFaces == {GameFace}
GameDiceNum == 0..(GameHoldDice - 1)
GameScoreType(t) ==
    {ScoreTypeSeq[i] : i \in {k \in 1..NumScoreTypes : k <= Cardinality(DOMAIN t) + GameAhead}}

Init == InitGame(GameFaces)

ReadRoll ==
    /\ Running
    /\ main_loop(RollCmd, GameFaces)
ReadSort ==
    /\ Running
    /\ main_loop(SortCmd, GameFaces)
ReadHold ==
    /\ Running
    /\ \E num \in GameDiceNum : main_loop(HoldCmd(num), GameFaces)
ReadScore ==
    /\ Running
    /\ \E score_type \in GameScoreType(table) : main_loop(ScoreCmd(score_type), GameFaces)
ReadNew ==
    /\ Running
    /\ main_loop(NewCmd, GameFaces)
ReadQuit ==
    /\ Running
    /\ main_loop(QuitCmd, GameFaces)
ReadHelp ==
    /\ Running
    /\ \E text \in HelpTexts : main_loop(HelpCmd(text), GameFaces)
ReadNotRecognised ==
    /\ Running
    /\ \E text \in NotRecognisedTexts : main_loop(NotRecognisedCmd(text), GameFaces)

Next ==
    \/ ReadRoll
    \/ ReadSort
    \/ ReadHold
    \/ ReadScore
    \/ ReadNew
    \/ ReadQuit
    \/ ReadHelp
    \/ ReadNotRecognised

Spec == Init /\ [][Next]_vars

(***************************************************************************)
(* SpecEngine: attempt_command called directly over whole games, with any  *)
(* command in any state (no control loop in between).                      *)
(***************************************************************************)
CallRoll ==
    /\ Running
    /\ Call(RollCmd, GameFaces)
CallSort ==
    /\ Running
    /\ Call(SortCmd, GameFaces)
CallHold ==
    /\ Running
    /\ \E num \in GameDiceNum : Call(HoldCmd(num), GameFaces)
CallScore ==
    /\ Running
    /\ \E score_type \in GameScoreType(table) : Call(ScoreCmd(score_type), GameFaces)
CallNew ==
    /\ Running
    /\ Call(NewCmd, GameFaces)
CallQuit ==
    /\ Running
    /\ Call(QuitCmd, GameFaces)
CallHelp ==
    /\ Running
    /\ \E text \in HelpTexts : Call(HelpCmd(text), GameFaces)
CallNotRecognised ==
    /\ Running
    /\ \E text \in NotRecognisedTexts : Call(NotRecognisedCmd(text), GameFaces)

NextEngine ==
    \/ CallRoll
    \/ CallSort
    \/ CallHold
    \/ CallScore
    \/ CallNew
    \/ CallQuit
    \/ CallHelp
    \/ CallNotRecognised

SpecEngine == Init /\ [][NextEngine]_vars

(***************************************************************************)
(* SpecTurn: the control loop over the turns of a game: the generator      *)
(* draws faces in 1..MaxDraw and the player scores only the first          *)
(* MaxTurnCat score types.                                                 *)
(***************************************************************************)
TurnFaces == 1..MaxDraw
TurnScoreType == {ScoreTypeSeq[i] : i \in 1..MaxTurnCat}

InitTurn == InitGame(TurnFaces)

TurnRoll ==
    /\ Running
    /\ main_loop(RollCmd, TurnFaces)
TurnSort ==
    /\ Running
    /\ main_loop(SortCmd, TurnFaces)
TurnHold ==
    /\ Running
    /\ \E num \in DiceNum : main_loop(HoldCmd(num), TurnFaces)
TurnScore ==
    /\ Running
    /\ \E score_type \in TurnScoreType : main_loop(ScoreCmd(score_type), TurnFaces)
TurnNew ==
    /\ Running
    /\ main_loop(NewCmd, TurnFaces)

NextTurn ==
    \/ TurnRoll
    \/ TurnSort
    \/ TurnHold
    \/ TurnScore
    \/ TurnNew

SpecTurn == InitTurn /\ [][NextTurn]_vars

(***************************************************************************)
(* SpecLoop: the control loop with the commands it handles itself: the     *)
(* generator draws faces in 1..MaxDraw, the player rolls, holds one of the *)
(* first GameHoldDice dice, scores one of the first MaxTurnCat score       *)
(* types, asks for help, or types a line that is not recognised.           *)
(***************************************************************************)
LoopFaces == 1..MaxDraw

InitLoop == InitGame(LoopFaces)

LoopRoll ==
    /\ Running
    /\ main_loop(RollCmd, LoopFaces)
LoopHold ==
    /\ Running
    /\ \E num \in GameDiceNum : main_loop(HoldCmd(num), LoopFaces)
LoopScore ==
    /\ Running
    /\ \E score_type \in TurnScoreType : main_loop(ScoreCmd(score_type), LoopFaces)
LoopHelp ==
    /\ Running
    /\ \E text \in HelpTexts : main_loop(HelpCmd(text), LoopFaces)
LoopNotRecognised ==
    /\ Running
    /\ \E text \in NotRecognisedTexts : main_loop(NotRecognisedCmd(text), LoopFaces)

NextLoop ==
    \/ LoopRoll
    \/ LoopHold
    \/ LoopScore
    \/ LoopHelp
    \/ LoopNotRecognised

SpecLoop == InitLoop /\ [][NextLoop]_vars

(***************************************************************************)
(* The evaluator on its own: every roll of five dice, every score type.    *)
(***************************************************************************)
InitEval ==
    /\ game_state = "FirstRoll"
    /\ dice \in Rolls
    /\ holds = NoHolds
    /\ table = EmptyTable
    /\ msg = ""
    /\ command = NoCmd
    /\ ret = NoRet
    /\ total = 0
    /\ input = <<>>
    /\ halt = "run"

Evaluate ==
    \E score_type \in ScoreType :
        /\ ret' = Ret("evaluate_score", TRUE, evaluate_score(dice, score_type), score_type)
        /\ UNCHANGED <<game_state, dice, holds, table, msg, command, total, input, halt>>

NextEval == Evaluate

SpecEval == InitEval /\ [][NextEval]_vars

(***************************************************************************)
(* The score table on its own: score_on_table, table_total, reset_scores.  *)
(* The (score type, roll) pairs recorded are those of LedgerPlays: every   *)
(* score type with a roll that scores its most there, and a second roll    *)
(* for Aces and for Yacht.                                                 *)
(***************************************************************************)
LedgerPlays ==
    {<<"Aces", <<1, 1, 1, 1, 1>>>>, <<"Aces", <<1, 2, 3, 4, 5>>>>,
     <<"Twos", <<2, 2, 2, 2, 2>>>>, <<"Threes", <<3, 3, 3, 3, 3>>>>,
     <<"Fours", <<4, 4, 4, 4, 4>>>>, <<"Fives", <<5, 5, 5, 5, 5>>>>,
     <<"Sixes", <<6, 6, 6, 6, 6>>>>, <<"FourOfKind", <<6, 6, 6, 6, 6>>>>,
     <<"FullHouse", <<6, 6, 6, 5, 5>>>>, <<"LittleStraight", <<1, 2, 3, 4, 5>>>>,
     <<"BigStraight", <<2, 3, 4, 5, 6>>>>, <<"Yacht", <<6, 6, 6, 6, 6>>>>,
     <<"Yacht", <<1, 1, 1, 1, 1>>>>, <<"Chance", <<6, 6, 6, 6, 6>>>>}

InitLedger ==
    /\ game_state = "FirstRoll"
    /\ dice = <<1, 1, 1, 1, 1>>
    /\ holds = NoHolds
    /\ table = EmptyTable
    /\ msg = ""
    /\ command = NoCmd
    /\ ret = NoRet
    /\ total = 0
    /\ input = <<>>
    /\ halt = "run"

\* score_on_table(score_type, roll); `dice` keeps the roll that was passed.
ScoreOnTable ==
    /\ Running
    /\ \E p \in LedgerPlays :
        LET o == score_on_table(table, p[1], p[2])
        IN  /\ table' = o.table
            /\ dice' = p[2]
            /\ ret' = Ret("score_on_table", o.ok, 0, p[1])
    /\ UNCHANGED <<game_state, holds, msg, command, total, input, halt>>

TableTotal ==
    /\ Running
    /\ \E o \in table_total(table) :
        IF o.panic
        THEN halt' = PanicOverflow /\ ret' = NoRet
        ELSE halt' = halt /\ ret' = Ret("table_total", TRUE, o.val, "")
    /\ UNCHANGED <<game_state, dice, holds, table, msg, command, total, input>>

ResetScores ==
    /\ Running
    /\ table' = reset_scores(table)
    /\ ret' = Ret("reset_scores", TRUE, 0, "")
    /\ UNCHANGED <<game_state, dice, holds, msg, command, total, input, halt>>

NextLedger == ScoreOnTable \/ TableTotal \/ ResetScores

SpecLedger == InitLedger /\ [][NextLedger]_vars

(***************************************************************************)
(* The command parser: retrieve_command and parse_command_from_input.      *)
(* A token is a non-empty sequence of characters (split_whitespace yields  *)
(* no empty token), a character a string of length one.                    *)
(***************************************************************************)
\* char::to_digit(10), as <u8 as FromStr>::from_str applies it.
Digit ==
    [c \in {"0", "1", "2", "3", "4", "5", "6", "7", "8", "9"} |->
        CASE c = "0" -> 0 [] c = "1" -> 1 [] c = "2" -> 2 [] c = "3" -> 3
          [] c = "4" -> 4 [] c = "5" -> 5 [] c = "6" -> 6 [] c = "7" -> 7
          [] c = "8" -> 8 [] c = "9" -> 9]

ParseErr == [ok |-> FALSE, val |-> 0]

\* A parse whose multiply and add wrap in the u8 rather than fail.
parse_u8_wrapping(tok) ==
    LET digits == IF tok[1] = "+" THEN Tail(tok) ELSE tok
        acc[k \in 0..Len(digits)] ==
            IF k = 0 THEN [ok |-> TRUE, val |-> 0]
            ELSE IF ~acc[k - 1].ok \/ digits[k] \notin DOMAIN Digit THEN ParseErr
            ELSE [ok |-> TRUE, val |-> (acc[k - 1].val * 10 + Digit[digits[k]]) % U8]
    IN  IF Len(digits) = 0 THEN ParseErr ELSE acc[Len(digits)]

\* num.parse::<u8>(): one optional "+", then one or more decimal digits; any
\* other character (a "-" too, the type being unsigned) or a value above 255
\* is an Err.
parse_u8(tok) ==
    LET digits == IF tok[1] = "+" THEN Tail(tok) ELSE tok
        acc[k \in 0..Len(digits)] ==
            IF k = 0 THEN [ok |-> TRUE, val |-> 0]
            ELSE IF ~acc[k - 1].ok \/ digits[k] \notin DOMAIN Digit THEN ParseErr
            ELSE IF acc[k - 1].val * 10 + Digit[digits[k]] >= U8 THEN ParseErr
            ELSE [ok |-> TRUE, val |-> acc[k - 1].val * 10 + Digit[digits[k]]]
    IN  IF Len(digits) = 0 THEN ParseErr ELSE acc[Len(digits)]

\* The words of the score match, in the order of ScoreTypeSeq.
ScoreWords ==
    <<{<<"1">>, <<"a", "c", "e", "s">>},
      {<<"2">>, <<"t", "w", "o", "s">>},
      {<<"3">>, <<"t", "h", "r", "e", "e", "s">>},
      {<<"4">>, <<"f", "o", "u", "r", "s">>},
      {<<"5">>, <<"f", "i", "v", "e", "s">>},
      {<<"6">>, <<"s", "i", "x", "e", "s">>},
      {<<"7">>, <<"f", "o", "u", "r", "o", "f", "a", "k", "i", "n", "d">>},
      {<<"8">>, <<"f", "u", "l", "l", "h", "o", "u", "s", "e">>},
      {<<"9">>, <<"l", "i", "t", "t", "l", "e", "s", "t", "r", "a", "i", "g", "h", "t">>},
      {<<"1", "0">>, <<"b", "i", "g", "s", "t", "r", "a", "i", "g", "h", "t">>},
      {<<"1", "1">>, <<"y", "a", "c", "h", "t">>},
      {<<"1", "2">>, <<"c", "h", "a", "n", "c", "e">>}>>

\* The words of the help match, and the text of each arm.
HelpTopics ==
    <<[words |-> {<<"r", "o", "l", "l">>, <<"r">>},
       text |-> "roll: rolls the dice that aren't held. Counts as a roll!"],
      [words |-> {<<"s", "o", "r", "t">>, <<"s">>},
       text |-> "sort: sorts the dice lowest to highest. Clears held dice"],
      [words |-> {<<"h", "o", "l", "d">>, <<"h">>},
       text |-> "hold <dice>: holds dice number <dice> exluding it from next rolls"],
      [words |-> {<<"s", "c", "o", "r", "e">>, <<"s", "c">>},
       text |-> "score <type>: submits dice to score where <type> is the number of that score type"],
      [words |-> {<<"n", "e", "w">>},
       text |-> "new: starts a new game, refreshing the scores"],
      [words |-> {<<"q", "u", "i", "t">>, <<"q">>, <<"e", "x", "i", "t">>, <<"e">>},
       text |-> "quit: quits the game"],
      [words |-> {<<"h", "e", "l", "p">>},
       text |-> "help <command>: shows possible commands or help for <command> (but you know that...)"]>>

MsgNoInput == "No input found"
MsgBadDiceNumber == "Invalid Dice Number, should be (1-5)"
MsgUnparsedDiceNumber == "Unable to parse dice number (did you enter a number?)"
MsgNoArgs == "Couldn't find command args"
MsgBadScoreType == "Invalid score type"
MsgNoScoreType == "No score tpye found"
MsgNoHelp == "No help found for that"
MsgCommands == "commands: roll, sort, hold <dice>, score <type>, new, quit, help <command>"
MsgBadCommand == "Invalid command, try 'help' for list of commands"

parse_hold(inp) ==
    IF Len(inp) < 2 THEN NotRecognisedCmd(MsgNoArgs)
    ELSE LET i == parse_u8(inp[2])
         IN  IF ~i.ok THEN NotRecognisedCmd(MsgUnparsedDiceNumber)
             ELSE CASE i.val = 1 -> HoldCmd(0)
                    [] i.val = 2 -> HoldCmd(1)
                    [] i.val = 3 -> HoldCmd(2)
                    [] i.val = 4 -> HoldCmd(3)
                    [] i.val = 5 -> HoldCmd(4)
                    [] OTHER -> NotRecognisedCmd(MsgBadDiceNumber)

parse_score(inp) ==
    IF Len(inp) < 2 THEN NotRecognisedCmd(MsgNoScoreType)
    ELSE IF \E i \in 1..NumScoreTypes : inp[2] \in ScoreWords[i]
         THEN ScoreCmd(ScoreTypeSeq[CHOOSE i \in 1..NumScoreTypes : inp[2] \in ScoreWords[i]])
         ELSE NotRecognisedCmd(MsgBadScoreType)

parse_help(inp) ==
    IF Len(inp) < 2 THEN HelpCmd(MsgCommands)
    ELSE IF \E i \in DOMAIN HelpTopics : inp[2] \in HelpTopics[i].words
         THEN HelpCmd(HelpTopics[CHOOSE i \in DOMAIN HelpTopics : inp[2] \in HelpTopics[i].words].text)
         ELSE NotRecognisedCmd(MsgNoHelp)

RollWords == {<<"r">>, <<"r", "o", "l", "l">>}
SortWords == {<<"s">>, <<"s", "o", "r", "t">>}
HoldWords == {<<"h">>, <<"h", "o", "l", "d">>}
ScoreCmdWords == {<<"s", "c">>, <<"s", "c", "o", "r", "e">>}
HelpWords == {<<"h", "e", "l", "p">>}
NewWords == {<<"n", "e", "w">>}
QuitWords == {<<"q", "u", "i", "t">>, <<"q">>, <<"e", "x", "i", "t">>, <<"e">>}

parse_command_from_input(inp) ==
    IF Len(inp) = 0 THEN NotRecognisedCmd(MsgNoInput)
    ELSE CASE inp[1] \in RollWords -> RollCmd
           [] inp[1] \in SortWords -> SortCmd
           [] inp[1] \in HoldWords -> parse_hold(inp)
           [] inp[1] \in ScoreCmdWords -> parse_score(inp)
           [] inp[1] \in HelpWords -> parse_help(inp)
           [] inp[1] \in NewWords -> NewCmd
           [] inp[1] \in QuitWords -> QuitCmd
           [] OTHER -> NotRecognisedCmd(MsgBadCommand)

(***************************************************************************)
(* The parser on its own: one line of input, parsed.  The lines are those  *)
(* of at most three tokens: a first token that is a command word or not,   *)
(* then a word of the parser or, after hold, score, help and r, any string *)
(* of at most MaxArgLen characters of ParseChars, then a token the parser  *)
(* does not look at.                                                       *)
(***************************************************************************)
MaxArgLen == 3

ParseChars == DOMAIN Digit \cup {"+", "-", "a"}

CommandWords ==
    RollWords \cup SortWords \cup HoldWords \cup ScoreCmdWords \cup HelpWords
        \cup NewWords \cup QuitWords

ParseWords ==
    CommandWords \cup UNION {ScoreWords[i] : i \in DOMAIN ScoreWords}

FirstTokens == CommandWords \cup {<<"x">>, <<"5">>}

ArgTokens == ParseWords \cup UNION {[1..n -> ParseChars] : n \in 1..MaxArgLen}

\* The first tokens whose match reads a second token, and one that does not.
ArgFirstTokens == HoldWords \cup ScoreCmdWords \cup HelpWords \cup {<<"r">>}

ParseInputs ==
    {<<>>} \cup {<<f>> : f \in FirstTokens}
        \cup {<<f, a>> : f \in FirstTokens, a \in ParseWords}
        \cup {<<f, a>> : f \in ArgFirstTokens, a \in ArgTokens}
        \cup {<<f, a, <<"x">>>> : f \in FirstTokens, a \in ParseWords}

InitParse ==
    /\ game_state = "FirstRoll"
    /\ dice = <<1, 1, 1, 1, 1>>
    /\ holds = NoHolds
    /\ table = EmptyTable
    /\ msg = ""
    /\ command = NoCmd
    /\ ret = NoRet
    /\ total = 0
    /\ input \in ParseInputs
    /\ halt = "run"

\* retrieve_command: the line is split, and the tokens parsed.
RetrieveCommand ==
    /\ Running
    /\ command' = parse_command_from_input(input)
    /\ ret' = Ret("parse_command_from_input", TRUE, 0, "")
    /\ UNCHANGED <<game_state, dice, holds, table, msg, total, input, halt>>

NextParse == RetrieveCommand

SpecParse == InitParse /\ [][NextParse]_vars

(***************************************************************************)
(* The Sort command on its own: every roll of five dice, held or not.      *)
(***************************************************************************)
SortHolds == {NoHolds, [k \in DiceIdx |-> k \in {2, 5}]}

InitSort ==
    /\ game_state \in {"FirstRoll", "ThirdRoll"}
    /\ dice \in Rolls
    /\ holds \in SortHolds
    /\ table = EmptyTable
    /\ msg = ""
    /\ command = NoCmd
    /\ ret = NoRet
    /\ total = 0
    /\ input = <<>>
    /\ halt = "run"

SortRoll ==
    /\ Running
    /\ Call(SortCmd, Faces)

NextSort == SortRoll

SpecSort == InitSort /\ [][NextSort]_vars

(***************************************************************************)
(* C1.                                                                     *)
(***************************************************************************)
\* The rule of the specification: 4 * v when at least four dice show v.
FourOfKindRule(d) ==
    IF \E v \in Faces : Amount(d, v) >= 4
    THEN 4 * (CHOOSE v \in Faces : Amount(d, v) >= 4)
    ELSE 0

\* C1: for every roll, in any order of the dice, evaluating FourOfKind yields
\* 4 * v when at least four of the five dice equal some face v, and 0
\* otherwise.
C1_FourOfKindIsRule ==
    (ret.op = "evaluate_score" /\ ret.text = "FourOfKind")
        => ret.val = FourOfKindRule(dice)

(***************************************************************************)
(* C2.                                                                     *)
(***************************************************************************)
\* C2: applying New in any state, GameOver included, leaves the ledger empty
\* and the game in FirstRoll with a fresh roll: all five dice redrawn and all
\* hold flags cleared.
C2_NewIsFresh ==
    [][(command'.kind = "New" /\ halt' = "run")
          => /\ table' = EmptyTable
             /\ game_state' = "FirstRoll"
             /\ holds' = NoHolds]_vars

(***************************************************************************)
(* C3.                                                                     *)
(***************************************************************************)
\* C3: in every reachable ledger state, total() equals the arithmetic sum of
\* all recorded per-category scores, also when they sum to more than 255.
C3_TotalIsSum ==
    /\ halt \in {"run", "quit"}
    /\ ret.op = "table_total" => ret.val = SumScores(table)

(***************************************************************************)
(* C4.                                                                     *)
(***************************************************************************)
\* C4: recording a score type the table does not hold succeeds and stores
\* evaluate_score of the roll passed, leaving every other entry as it was;
\* recording a score type the table holds fails and leaves the table
\* unchanged, whatever the roll passed.
C4_RecordOnce ==
    [][ret'.op = "score_on_table"
          => LET c == ret'.text
             IN  IF c \in DOMAIN table
                 THEN ~ret'.ok /\ table' = table
                 ELSE /\ ret'.ok
                      /\ DOMAIN table' = DOMAIN table \cup {c}
                      /\ table'[c] = evaluate_score(dice', c)
                      /\ \A x \in DOMAIN table : table'[x] = table[x]]_vars

\* A second record of Aces, with a roll that scores otherwise, has failed and
\* the first score is still there.
C4_SecondRecordFailed ==
    /\ ret.op = "score_on_table"
    /\ ret.text = "Aces"
    /\ ~ret.ok
    /\ table["Aces"] # evaluate_score(dice, "Aces")

(***************************************************************************)
(* C5.                                                                     *)
(***************************************************************************)
\* A Score the loop applied and the engine accepted.
ScoreAccepted == command'.kind = "Score" /\ halt' = "run" /\ msg' # MsgUsed

\* C5: the table is empty in a new game and every accepted Score adds one
\* entry to it; the game is not GameOver after any of the first eleven
\* accepted Scores and is GameOver after the twelfth.
C5_GameOverAtTwelfth ==
    /\ table = EmptyTable
    /\ [][ScoreAccepted
             => /\ Cardinality(DOMAIN table') = Cardinality(DOMAIN table) + 1
                /\ game_state' = "GameOver"
                      <=> Cardinality(DOMAIN table') = NumScoreTypes]_vars

\* The twelfth Score has been accepted.
C5_TwelfthAccepted ==
    /\ command.kind = "Score"
    /\ msg = MsgGameOver
    /\ game_state = "GameOver"
    /\ Cardinality(DOMAIN table) = NumScoreTypes

(***************************************************************************)
(* C6.                                                                     *)
(***************************************************************************)
\* C6: the game is GameOver only if the table holds all twelve score types;
\* GameOver stays GameOver under Roll, Hold, Sort and Score, and only New
\* leaves it.
C6_GameOverAbsorbs ==
    /\ [](game_state = "GameOver" => Cardinality(DOMAIN table) = NumScoreTypes)
    /\ [][game_state = "GameOver"
             => /\ command'.kind \in {"Roll", "Hold", "Sort", "Score"}
                      => game_state' = "GameOver"
                /\ game_state' # "GameOver" => command'.kind = "New"]_vars

\* A Hold was applied in GameOver and the game is still GameOver.
C6_HeldInGameOver ==
    /\ game_state = "GameOver"
    /\ command.kind = "Hold"
    /\ halt = "run"

(***************************************************************************)
(* C7.                                                                     *)
(***************************************************************************)
\* C7 as stated: in GameOver, any command the loop reads, Quit included, is
\* applied as New, after which the table is empty and the game in FirstRoll.
C7_AnyCommandIsNew ==
    [][(game_state = "GameOver" /\ halt = "run")
          => /\ command' = NewCmd
             /\ table' = EmptyTable
             /\ game_state' = "FirstRoll"]_vars

\* C7: in GameOver, Quit ends the loop and leaves the game as it is; any other
\* command the loop reads is applied as New, after which the table is empty
\* and the game in FirstRoll.
C7_AnyCommandButQuitIsNew ==
    [][(game_state = "GameOver" /\ halt = "run")
          => IF halt' = "quit"
             THEN /\ command' = QuitCmd
                  /\ UNCHANGED <<game_state, dice, holds, table, msg>>
             ELSE /\ command' = NewCmd
                  /\ halt' = "run"
                  /\ msg' = MsgNew
                  /\ table' = EmptyTable
                  /\ game_state' = "FirstRoll"]_vars

\* The loop is about to read a command in GameOver.
C7_ReadInGameOver ==
    /\ game_state = "GameOver"
    /\ halt = "run"
    /\ command.kind = "Score"

C9_RollInThirdRoll ==
    [][(game_state = "ThirdRoll" /\ command'.kind = "Roll")
          => /\ UNCHANGED <<game_state, dice, holds, table, halt>>
             /\ msg' = MsgNoMoreRolls]_vars

\* A Roll was refused in ThirdRoll, with dice free to roll.
C9_RollRefused ==
    /\ game_state = "ThirdRoll"
    /\ command.kind = "Roll"
    /\ msg = MsgNoMoreRolls
    /\ \E i \in DiceIdx : ~holds[i]
    /\ \E i \in DiceIdx : holds[i]

(***************************************************************************)
(* C10.                                                                    *)
(***************************************************************************)
\* The order of the rolls of a turn.
RollRank(gs) ==
    CASE gs = "FirstRoll" -> 1
      [] gs = "SecondRoll" -> 2
      [] gs = "ThirdRoll" -> 3
      [] gs = "GameOver" -> 4

\* C10: a Roll moves FirstRoll to SecondRoll and SecondRoll to ThirdRoll; a
\* Roll changes the dice only in a step that moves the game state so, and the
\* state moves back only by an accepted Score or a New: between two accepted
\* Scores, or since New, at most two Rolls change the dice.
C10_TwoRollsATurn ==
    [][/\ command'.kind = "Roll"
            => /\ game_state = "FirstRoll" => game_state' = "SecondRoll"
               /\ game_state = "SecondRoll" => game_state' = "ThirdRoll"
               /\ dice' # dice => RollRank(game_state') = RollRank(game_state) + 1
       /\ RollRank(game_state') > RollRank(game_state)
            => \/ command'.kind = "Roll"
                    /\ RollRank(game_state') = RollRank(game_state) + 1
               \/ command'.kind = "Score" /\ game_state' = "GameOver"
       /\ RollRank(game_state') < RollRank(game_state)
            => /\ command'.kind \in {"Score", "New"}
               /\ game_state' = "FirstRoll"
               /\ command'.kind = "Score" => msg' = MsgSubmitted]_vars

\* The second Roll of a turn has been applied.
C10_SecondRollApplied ==
    /\ game_state = "ThirdRoll"
    /\ command.kind = "Roll"
    /\ msg = MsgNextRoll

(***************************************************************************)
(* C11.                                                                    *)
(***************************************************************************)
\* The loop applies a Score of a score type the table does not hold.
ScoreOfUnused ==
    /\ command'.kind = "Score"
    /\ halt' = "run"
    /\ command'.score_type \notin DOMAIN table

\* C11: a Score of an unused score type that leaves fewer than twelve on the
\* table sets the state to FirstRoll and replaces the roll by a new one with
\* no hold flag set, whatever the state and the hold flags were; one that
\* fills the table sets the state to GameOver.
C11_ScoreStartsTurn ==
    [][ScoreOfUnused
          => /\ command'.score_type \in DOMAIN table'
             /\ IF Cardinality(DOMAIN table') < NumScoreTypes
                THEN /\ game_state' = "FirstRoll"
                     /\ holds' = NoHolds
                     /\ dice' \in gen_roll(GameFaces)
                ELSE game_state' = "GameOver"]_vars

\* A Score was accepted in the middle of a game and the new turn has begun.
C11_TurnStarted ==
    /\ command.kind = "Score"
    /\ msg = MsgSubmitted
    /\ game_state = "FirstRoll"
    /\ holds = NoHolds
    /\ Cardinality(DOMAIN table) = 5

(***************************************************************************)
(* C12.                                                                    *)
(***************************************************************************)
\* C12: a Score of a score type the table already holds changes neither the
\* table, the dice, the hold flags nor the game state, and returns a message.
C12_ScoreOfUsed ==
    [][(command'.kind = "Score" /\ command'.score_type \in DOMAIN table)
          => /\ UNCHANGED <<table, dice, holds, game_state, halt>>
             /\ ret' = Ret("attempt_command", TRUE, 0, MsgUsed)
             /\ msg' = MsgUsed]_vars

\* A Score of a used score type was refused on the third roll, with dice held.
C12_ScoreRefused ==
    /\ command.kind = "Score"
    /\ command.score_type \in DOMAIN table
    /\ msg = MsgUsed
    /\ game_state = "ThirdRoll"
    /\ \E i \in DiceIdx : holds[i]

C14_RollKeepsHeld ==
    [][(command'.kind = "Roll" /\ game_state \in {"FirstRoll", "SecondRoll"})
          => /\ holds' = holds
             /\ halt' = "run"
             /\ \A i \in DiceIdx :
                    IF holds[i] THEN dice'[i] = dice[i] ELSE dice'[i] \in TurnFaces]_vars

\* A Roll was applied with some dice held and some not, the held ones not all
\* of the same face.
C14_RolledWithHolds ==
    /\ command.kind = "Roll"
    /\ msg = MsgNextRoll
    /\ \E i \in DiceIdx : ~holds[i]
    /\ \E i, j \in DiceIdx : holds[i] /\ holds[j] /\ dice[i] # dice[j]

(***************************************************************************)
(* C15.                                                                    *)
(***************************************************************************)
\* C15: hold at index i flips the hold flag at i and no other, and returns
\* the new value of the flag (the loop shows "Held" for true, "Unheld" for
\* false); it changes no die; applied twice at the same index it restores the
\* five hold flags.
C15_HoldToggles ==
    /\ [](\A num \in DiceNum :
             /\ hold(hold(holds, num).holds, num).holds = holds
             /\ hold(holds, num).ret = hold(holds, num).holds[num + 1])
    /\ [][command'.kind = "Hold"
             => LET i == command'.num + 1
                IN  /\ holds'[i] = ~holds[i]
                    /\ \A j \in DiceIdx \ {i} : holds'[j] = holds[j]
                    /\ dice' = dice
                    /\ msg' = IF holds'[i] THEN MsgHeld(command'.num)
                              ELSE MsgUnheld(command'.num)]_vars

\* The third die was unheld, the others staying held, on dice of two faces.
C15_Unheld ==
    /\ command = HoldCmd(2)
    /\ msg = MsgUnheld(2)
    /\ holds = <<TRUE, TRUE, FALSE, TRUE, TRUE>>
    /\ dice[1] # dice[2]

(***************************************************************************)
(* C16.                                                                    *)
(***************************************************************************)
\* C16: after a Sort the five dice are in non-decreasing order and no hold
\* flag is set.
C16_SortedAndUnheld ==
    (command.kind = "Sort" /\ halt = "run")
        => /\ \A i \in 1..(NumDice - 1) : dice[i] <= dice[i + 1]
           /\ holds = NoHolds

\* A Sort was applied to dice of two faces.
C16_Sorted ==
    /\ command.kind = "Sort"
    /\ msg = MsgSorted
    /\ dice[1] # dice[NumDice]

(***************************************************************************)
(* C17.                                                                    *)
(***************************************************************************)
\* C17: in FirstRoll, SecondRoll and ThirdRoll a Hold and a Sort are applied
\* (each returns its own message) and change neither the game state nor the
\* table.
C17_HoldAndSortKeepTurn ==
    [][(command'.kind \in {"Hold", "Sort"} /\ game_state # "GameOver")
          => /\ UNCHANGED <<game_state, table, halt>>
             /\ ret'.op = "attempt_command"
             /\ msg' = ret'.text
             /\ command'.kind = "Sort" => msg' = MsgSorted
             /\ command'.kind = "Hold"
                  => msg' \in {MsgHeld(command'.num), MsgUnheld(command'.num)}]_vars

\* A Hold was applied on the third roll of a turn, with a score on the table.
C17_HeldOnThirdRoll ==
    /\ command.kind = "Hold"
    /\ game_state = "ThirdRoll"
    /\ table # EmptyTable
    /\ halt = "run"

(***************************************************************************)
(* C18.                                                                    *)
(***************************************************************************)
\* C18: in every reachable state the roll has exactly five dice, each in
\* 1..6, and exactly five hold flags.
C18_RollShape ==
    /\ DOMAIN dice = DiceIdx
    /\ \A i \in DiceIdx : dice[i] \in Faces
    /\ DOMAIN holds = DiceIdx
    /\ \A i \in DiceIdx : holds[i] \in BOOLEAN

\* Score, Roll and Sort have been applied: the game has a score on its table
\* and is at its third roll, its dice of two faces just sorted.
C18_AfterCommands ==
    /\ game_state = "ThirdRoll"
    /\ table # EmptyTable
    /\ command.kind = "Sort"
    /\ dice[1] # dice[NumDice]

(***************************************************************************)
(* C19.                                                                    *)
(***************************************************************************)
\* The rule of the specification: 25 when one face shows exactly three times
\* and another exactly twice.
FullHouseRule(d) ==
    IF \E a, b \in Faces :
           /\ a # b
           /\ Cardinality({k \in DiceIdx : d[k] = a}) = 3
           /\ Cardinality({k \in DiceIdx : d[k] = b}) = 2
    THEN 25
    ELSE 0

\* C19: for every roll, evaluating FullHouse yields 25 exactly when one face
\* occurs exactly three times and a different face exactly twice, and 0
\* otherwise; five dice of one face score 0.
C19_FullHouseIsRule ==
    (ret.op = "evaluate_score" /\ ret.text = "FullHouse")
        => /\ ret.val = FullHouseRule(dice)
           /\ (\A k \in DiceIdx : dice[k] = dice[1]) => ret.val = 0

\* FullHouse was evaluated on three 3s and two 5s, out of order.
C19_FullHouseScored ==
    /\ ret = Ret("evaluate_score", TRUE, 25, "FullHouse")
    /\ dice = <<3, 5, 3, 5, 3>>

(***************************************************************************)
(* C20.                                                                    *)
(***************************************************************************)
\* C20: LittleStraight scores 30 when the dice, as they stand, are exactly
\* (1,2,3,4,5), and BigStraight 30 when they are exactly (2,3,4,5,6); every
\* other roll, the other orders of the same faces included, scores 0.
C20_StraightsInOrder ==
    /\ (ret.op = "evaluate_score" /\ ret.text = "LittleStraight")
          => ret.val = IF \A k \in DiceIdx : dice[k] = k THEN 30 ELSE 0
    /\ (ret.op = "evaluate_score" /\ ret.text = "BigStraight")
          => ret.val = IF \A k \in DiceIdx : dice[k] = k + 1 THEN 30 ELSE 0

\* LittleStraight was evaluated on the faces 1..5 in descending order.
C20_StraightOutOfOrder ==
    /\ ret = Ret("evaluate_score", TRUE, 0, "LittleStraight")
    /\ dice = <<5, 4, 3, 2, 1>>

(***************************************************************************)
(* C21.                                                                    *)
(***************************************************************************)
\* C21: for the score types Aces..Sixes, of face value v in 1..6, and every
\* roll, the score is v times the number of dice equal to v; evaluating a
\* score type changes neither the roll nor the table.
C21_UpperIsFaceTimesCount ==
    /\ [](\A v \in Faces :
             (ret.op = "evaluate_score" /\ ret.text = ScoreTypeSeq[v])
                 => ret.val = v * Cardinality({k \in DiceIdx : dice[k] = v}))
    /\ [][ret'.op = "evaluate_score"
             => UNCHANGED <<dice, holds, table, game_state>>]_vars

\* Fours was evaluated on a roll with three 4s.
C21_FoursScored ==
    /\ ret = Ret("evaluate_score", TRUE, 12, "Fours")
    /\ dice = <<4, 1, 4, 6, 4>>

(***************************************************************************)
(* C22.                                                                    *)
(***************************************************************************)
\* The number a token writes, if it writes one: an optional sign, then one or
\* more decimal digits.
Unsigned(tok) == IF tok[1] \in {"+", "-"} THEN Tail(tok) ELSE tok

Numeric(tok) ==
    /\ Len(Unsigned(tok)) >= 1
    /\ \A k \in DOMAIN Unsigned(tok) : Unsigned(tok)[k] \in DOMAIN Digit

RECURSIVE DecimalValue(_)
DecimalValue(ds) ==
    IF ds = <<>> THEN 0
    ELSE 10 * DecimalValue(SubSeq(ds, 1, Len(ds) - 1)) + Digit[ds[Len(ds)]]

NumberOf(tok) ==
    IF tok[1] = "-" THEN 0 - DecimalValue(Unsigned(tok)) ELSE DecimalValue(Unsigned(tok))

Parsed == ret.op = "parse_command_from_input"

\* The parser returns one command of the eight variants, with its payload.
ParseIsTotal ==
    \/ command \in {RollCmd, SortCmd, NewCmd, QuitCmd}
    \/ \E score_type \in ScoreType : command = ScoreCmd(score_type)
    \/ \E num \in DiceNum : command = HoldCmd(num)
    \/ command.kind \in {"Help", "NotRecognised"} /\ command = Cmd(command.kind, "", 0, command.text)

\* A Hold carries the number the user wrote, minus one.
HoldIsNumberMinusOne ==
    command.kind = "Hold"
        => /\ Len(input) >= 2
           /\ Numeric(input[2])
           /\ command.num \in 0..4
           /\ command.num = NumberOf(input[2]) - 1

\* The argument of hold or score is missing, or is no number, or is a number
\* outside 1..n.
ArgumentNotIn(n) ==
    \/ Len(input) < 2
    \/ ~Numeric(input[2])
    \/ NumberOf(input[2]) \notin 1..n

\* C22 as stated: the parser is total; a Hold carries a die index in 0..4, the
\* user's number minus one; a Score carries one of the 12 score types; and a
\* missing, non-numeric or out-of-range argument of hold or of score yields
\* NotRecognised.
C22_EveryArgumentIsANumber ==
    Parsed
        => /\ ParseIsTotal
           /\ HoldIsNumberMinusOne
           /\ command.kind = "Score" => command.score_type \in ScoreType
           /\ (Len(input) >= 1 /\ input[1] \in HoldWords /\ ArgumentNotIn(NumDice))
                  => command.kind = "NotRecognised"
           /\ (Len(input) >= 1 /\ input[1] \in ScoreCmdWords /\ ArgumentNotIn(NumScoreTypes))
                  => command.kind = "NotRecognised"

\* The name of a score type, as the score command takes it.
ScoreNames ==
    {<<"a", "c", "e", "s">>, <<"t", "w", "o", "s">>, <<"t", "h", "r", "e", "e", "s">>,
     <<"f", "o", "u", "r", "s">>, <<"f", "i", "v", "e", "s">>, <<"s", "i", "x", "e", "s">>,
     <<"f", "o", "u", "r", "o", "f", "a", "k", "i", "n", "d">>,
     <<"f", "u", "l", "l", "h", "o", "u", "s", "e">>,
     <<"l", "i", "t", "t", "l", "e", "s", "t", "r", "a", "i", "g", "h", "t">>,
     <<"b", "i", "g", "s", "t", "r", "a", "i", "g", "h", "t">>,
     <<"y", "a", "c", "h", "t">>, <<"c", "h", "a", "n", "c", "e">>}

\* C22, amended: the parser is total; a Hold carries a die index in 0..4, the
\* user's number minus one; a Score carries one of the 12 score types; a
\* missing, non-numeric or out-of-range argument of hold yields
\* NotRecognised; and so does an argument of score that is missing, or that
\* is neither a number in 1..12 nor the name of a score type.
C22_ParseChecksArgument ==
    Parsed
        => /\ ParseIsTotal
           /\ HoldIsNumberMinusOne
           /\ command.kind = "Score" => command.score_type \in ScoreType
           /\ (Len(input) >= 1 /\ input[1] \in HoldWords /\ ArgumentNotIn(NumDice))
                  => command.kind = "NotRecognised"
           /\ (/\ Len(input) >= 1
               /\ input[1] \in ScoreCmdWords
               /\ ArgumentNotIn(NumScoreTypes)
               /\ Len(input) >= 2 => input[2] \notin ScoreNames)
                  => command.kind = "NotRecognised"

\* "h 03" was parsed, to a Hold of the third die.
C22_HoldParsed ==
    /\ Parsed
    /\ input = <<<<"h">>, <<"0", "3">>>>
    /\ command = HoldCmd(2)

(***************************************************************************)
(* C23.                                                                    *)
(***************************************************************************)
\* The dice are in non-decreasing order, as Sort leaves them.
NonDecreasing(d) == \A k \in 1..(NumDice - 1) : d[k] <= d[k + 1]

\* The faces the dice show.
FacesOf(d) == {d[k] : k \in DiceIdx}

\* C23: on every roll in non-decreasing order the evaluator agrees with the
\* rule on the multiset of the dice: FourOfKind is 4 * v exactly when at
\* least four dice show v, LittleStraight is 30 exactly when the faces are
\* {1,2,3,4,5}, BigStraight is 30 exactly when they are {2,3,4,5,6}; each is
\* 0 otherwise.
C23_SortedAgreesWithMultiset ==
    (ret.op = "evaluate_score" /\ NonDecreasing(dice))
        => /\ ret.text = "FourOfKind" => ret.val = FourOfKindRule(dice)
           /\ ret.text = "LittleStraight"
                  => ret.val = IF FacesOf(dice) = 1..5 THEN 30 ELSE 0
           /\ ret.text = "BigStraight"
                  => ret.val = IF FacesOf(dice) = 2..6 THEN 30 ELSE 0

\* FourOfKind was evaluated on a sorted roll whose last four dice are equal.
C23_SortedFourScored ==
    /\ ret = Ret("evaluate_score", TRUE, 8, "FourOfKind")
    /\ dice = <<1, 2, 2, 2, 2>>

(***************************************************************************)
(* C24.                                                                    *)
(***************************************************************************)
\* C24: the Sort command leaves each face on as many dice as before (it only
\* permutes the dice), and Sort applied to the roll that Sort left gives that
\* roll again.
C24_SortPermutesOnce ==
    /\ [][(command'.kind = "Sort" /\ halt' = "run")
             => \A v \in Faces : Amount(dice', v) = Amount(dice, v)]_vars
    /\ []((command.kind = "Sort" /\ halt = "run")
             => \A o \in attempt_command(Game, SortCmd, Faces) : o.dice = dice)

\* Sort was applied on the third roll, and left the dice 1, 2, 2, 5, 6.
C24_SortApplied ==
    /\ command.kind = "Sort"
    /\ halt = "run"
    /\ dice = <<1, 2, 2, 5, 6>>
    /\ game_state = "ThirdRoll"

(***************************************************************************)
(* C25.                                                                    *)
(***************************************************************************)
\* C25: outside GameOver, a Help or NotRecognised command that the loop of
\* main handles changes the message alone, to the text of the command: the
\* dice, the holds, the table and the game state stay as they are, the
\* process runs on, and attempt_command is not called.
C25_HelpChangesMessageOnly ==
    [][(game_state # "GameOver" /\ command'.kind \in {"Help", "NotRecognised"})
          => /\ UNCHANGED <<dice, holds, table, game_state, total, halt>>
             /\ msg' = command'.text
             /\ ret' = NoRet]_vars

\* A command that was not recognised was handled on the third roll of a turn,
\* with a die held and a score on the table.
C25_NotRecognisedHandled ==
    /\ command.kind = "NotRecognised"
    /\ msg = command.text
    /\ ret = NoRet
    /\ game_state = "ThirdRoll"
    /\ dice = <<2, 1, 1, 2, 1>>
    /\ holds[1]
    /\ DOMAIN table # {}
    /\ halt = "run"

====
